---- MODULE Spec2Model ----
(***************************************************************************)
(* Model of the tool-function store of src/main.py: the five HTTP handlers *)
(* that parse global_tools.py into an AST, search / append / replace /     *)
(* remove function definitions and write the unparsed tree back.           *)
(*                                                                         *)
(* Source text is a sequence of items (lines); a statement item carries    *)
(* the AST node it parses to.  ast.parse drops comments, blank lines and   *)
(* authored formatting; ast.unparse renders every node in canonical form.  *)
(*                                                                         *)
(* Further specifications: SpecConc (two server processes on one file),    *)
(* SpecScenario (the end-to-end calls), SpecAgents (the agent endpoints    *)
(* and the directories under managed_agents) and SpecWeather (the          *)
(* get_weather tool of src/global_tools.py in its environment).            *)
(***************************************************************************)
EXTENDS Naturals, Integers, Sequences, FiniteSets, TLC

\* ------------------------------------------------------------------ bounds
\* most top-level function definitions the model lets create add to the file
MaxFuncs == 2
\* number of distinct function bodies (1: "return a + b", 2: "return a - b")
NumVers == 2

Names == {"f", "g"}
Vers == 1..NumVers

VARIABLES
    file,           \* text of global_tools.py
    file_before,    \* text of global_tools.py when the last request arrived
    request,        \* the last request received
    response,       \* the response the handler gave to it
    pc,             \* per server process: where its handler stands
    job,            \* per server process: the request it is handling
    snap,           \* per server process: the source_code its handler read
    reply,          \* per server process: the response of its handler
    step,           \* number of calls of the end-to-end scenario made so far
    agents,         \* the directories under managed_agents
    agents_before,  \* the directories when the last request arrived
    agent_request,  \* the last request to an agent endpoint
    agent_response, \* the response the agent endpoint gave to it
    weather_in,     \* what the environment of a get_weather call answers
    weather_out     \* what the get_weather call returned or raised

vars == <<file, file_before, request, response, pc, job, snap, reply,
          step, agents, agents_before, agent_request, agent_response,
          weather_in, weather_out>>

\* the variables of the end-to-end scenario, of the agent endpoints and of
\* the get_weather tool
otherVars == <<step, agents, agents_before, agent_request, agent_response,
               weather_in, weather_out>>

agentVars == <<agents, agents_before, agent_request, agent_response>>

weatherVars == <<weather_in, weather_out>>

\* the variables of the server processes that share the file
procVars == <<pc, job, snap, reply>>

\* server processes running the app on the same working directory; inside
\* one process a handler has no await and runs to completion, so only
\* handlers of different processes interleave
Workers == {"w1", "w2"}

\* ------------------------------------------------------------ AST nodes
NoNode == [type |-> "None", name |-> "", ver |-> 0, inner |-> <<>>]

FuncTypes == {"FunctionDef", "AsyncFunctionDef"}

FunctionDef(n, v, inner) ==
    [type |-> "FunctionDef", name |-> n, ver |-> v, inner |-> inner]

AsyncFunctionDef(n, v, inner) ==
    [type |-> "AsyncFunctionDef", name |-> n, ver |-> v, inner |-> inner]

Import == [type |-> "Import", name |-> "datetime", ver |-> 0, inner |-> <<>>]

ImportFrom == [type |-> "ImportFrom", name |-> "ZoneInfo", ver |-> 0, inner |-> <<>>]

Assign == [type |-> "Assign", name |-> "x", ver |-> 0, inner |-> <<>>]

\* isinstance(node, (ast.FunctionDef, ast.AsyncFunctionDef))
IsFunction(node) == node.type \in FuncTypes

\* --------------------------------------------------------- source text
Stmt(node, fmt) == [tok |-> "stmt", node |-> node, fmt |-> fmt]

Comment == [tok |-> "comment", node |-> NoNode, fmt |-> "authored"]

Blank == [tok |-> "blank", node |-> NoNode, fmt |-> "authored"]

\* leading or trailing spaces of the submitted text
Space == [tok |-> "space", node |-> NoNode, fmt |-> "authored"]

\* the final line terminator of a text
Eol == [tok |-> "eol", node |-> NoNode, fmt |-> "authored"]

\* text that is not Python
Garbage == [tok |-> "garbage", node |-> NoNode, fmt |-> "authored"]

Whitespace == {"space", "blank", "eol"}

\* str.strip(): drop leading and trailing whitespace
RECURSIVE lstrip(_)
lstrip(text) ==
    IF text # <<>> /\ Head(text).tok \in Whitespace
    THEN lstrip(Tail(text))
    ELSE text

RECURSIVE rstrip(_)
rstrip(text) ==
    IF text # <<>> /\ text[Len(text)].tok \in Whitespace
    THEN rstrip(SubSeq(text, 1, Len(text) - 1))
    ELSE text

strip(text) == rstrip(lstrip(text))

\* ast.parse raises SyntaxError: text that is not Python, or an indented
\* first statement (IndentationError is a SyntaxError)
IsSyntaxError(text) ==
    \E i \in 1..Len(text) :
        \/ text[i].tok = "garbage"
        \/ /\ text[i].tok = "space"
           /\ \E j \in (i + 1)..Len(text) : text[j].tok = "stmt"

IsStmt(item) == item.tok = "stmt"

\* ast.parse(text): Module.body, the statements in order; comments, blank
\* lines and formatting are not part of the tree
ast_parse(text) ==
    IF IsSyntaxError(text)
    THEN [ok |-> FALSE, body |-> <<>>]
    ELSE LET stmts == SelectSeq(text, IsStmt)
         IN  [ok |-> TRUE, body |-> [i \in 1..Len(stmts) |-> stmts[i].node]]

\* ast.unparse(tree): every statement of the body rendered canonically
ast_unparse(body) == [i \in 1..Len(body) |-> Stmt(body[i], "canonical")]

\* ast.walk(tree): breadth first, the top-level statements in order, then
\* their children, then the grandchildren ...
RECURSIVE Children(_)
Children(nodes) ==
    IF nodes = <<>> THEN <<>> ELSE Head(nodes).inner \o Children(Tail(nodes))

RECURSIVE ast_walk(_)
ast_walk(nodes) ==
    IF nodes = <<>> THEN <<>> ELSE nodes \o ast_walk(Children(nodes))

\* ------------------------------------------------ AST helper functions
\* a read_global_tools_ast that takes an unparsable file for an empty one
read_global_tools_ast_lenient(f) ==
    IF IsSyntaxError(f) THEN [ok |-> TRUE, body |-> <<>>] ELSE ast_parse(f)

\* read_global_tools_ast: parse the whole file (SyntaxError -> 500)
read_global_tools_ast(f) == ast_parse(f)

\* a write_global_tools_ast that renders only the function definitions
write_global_tools_ast_funcs(body) ==
    Append(ast_unparse(SelectSeq(body, IsFunction)), Eol)

\* write_global_tools_ast: unparse the tree, add a final newline if missing
write_global_tools_ast(body) ==
    LET new_source_code == ast_unparse(body)
    IN  IF new_source_code # <<>> /\ new_source_code[Len(new_source_code)] = Eol
        THEN new_source_code
        ELSE Append(new_source_code, Eol)

\* a find_function_node that never matches
find_function_node_never(body, func_name) == NoNode

\* a find_function_node that scans only the top-level statements
find_function_node_toplevel(body, func_name) ==
    LET hits == {i \in 1..Len(body) :
                    IsFunction(body[i]) /\ body[i].name = func_name}
    IN  IF hits = {} THEN NoNode
        ELSE body[CHOOSE i \in hits : \A j \in hits : i <= j]

\* a find_function_node that returns the last match of the walk
find_function_node_last(body, func_name) ==
    LET walk == ast_walk(body)
        hits == {i \in 1..Len(walk) :
                    IsFunction(walk[i]) /\ walk[i].name = func_name}
    IN  IF hits = {} THEN NoNode
        ELSE walk[CHOOSE i \in hits : \A j \in hits : i >= j]

\* find_function_node: the first node of ast.walk that is a function
\* definition named func_name, or None
find_function_node(body, func_name) ==
    LET walk == ast_walk(body)
        hits == {i \in 1..Len(walk) :
                    IsFunction(walk[i]) /\ walk[i].name = func_name}
    IN  IF hits = {} THEN NoNode
        ELSE walk[CHOOSE i \in hits : \A j \in hits : i <= j]

\* get_function_code: the unparsed node, or None
get_function_code(body, func_name) ==
    LET node == find_function_node(body, func_name)
    IN  IF node # NoNode
        THEN [found |-> TRUE, code |-> ast_unparse(<<node>>)]
        ELSE [found |-> FALSE, code |-> <<>>]

\* ------------------------------------------------- requests, responses
\* ToolFunction(name, code)
ToolFunction(n, code) == [name |-> n, code |-> code]

NoRequest ==
    [op |-> "none", function_name |-> "", tool_func |-> ToolFunction("", <<>>)]

Request(op, function_name, tool_func) ==
    [op |-> op, function_name |-> function_name, tool_func |-> tool_func]

\* an HTTPException(status_code, detail)
HTTPException(status_code, detail) ==
    [status |-> status_code, detail |-> detail,
     body |-> ToolFunction("", <<>>), names |-> <<>>]

\* a success response carrying a ToolFunction
Returned(status_code, tool_func) ==
    [status |-> status_code, detail |-> "", body |-> tool_func, names |-> <<>>]

NoResponse == HTTPException(0, "")

\* every HTTPException the tool function handlers raise
Raised ==
    {HTTPException(500, "StorageCorrupt"), HTTPException(409, "AlreadyExists"),
     HTTPException(404, "NotFound"), HTTPException(400, "SyntaxError"),
     HTTPException(400, "NoFunctionDefinition"),
     HTTPException(400, "NameMismatch"),
     HTTPException(400, "PathBodyMismatch"),
     HTTPException(500, "NoNodeIndex")}

\* the fixed part of the detail string the caller receives: SyntaxError and
\* both ValueErrors are caught by one except clause, and the HTTPException
\* of the replacement loop by the except Exception clause of update
Message(detail) ==
    IF detail \in {"SyntaxError", "NoFunctionDefinition", "NameMismatch"}
    THEN "Invalid function code provided"
    ELSE IF detail = "NoNodeIndex" THEN "Failed to update function"
    ELSE detail

\* what the caller can tell a response by: status code and fixed message
ReportedKind(resp) == <<resp.status, Message(resp.detail)>>

\* what a handler does: the file it leaves and the response it gives
Outcome(f, resp) == [file |-> f, response |-> resp]

\* ------------------------------------------------------------ handlers
\* a create that appends the submitted text to the file as it is
create_tool_function_textual(f, tool_func) ==
    LET tree == read_global_tools_ast(f)
    IN  IF ~tree.ok
        THEN Outcome(f, HTTPException(500, "StorageCorrupt"))
        ELSE IF find_function_node(tree.body, tool_func.name) # NoNode
        THEN Outcome(f, HTTPException(409, "AlreadyExists"))
        ELSE Outcome(f \o tool_func.code, Returned(201, tool_func))

\* a create that does not compare the declared name with the given name
create_tool_function_anyname(f, tool_func) ==
    LET tree == read_global_tools_ast(f)
    IN  IF ~tree.ok
        THEN Outcome(f, HTTPException(500, "StorageCorrupt"))
        ELSE IF find_function_node(tree.body, tool_func.name) # NoNode
        THEN Outcome(f, HTTPException(409, "AlreadyExists"))
        ELSE
        LET new_func_tree == ast_parse(strip(tool_func.code))
        IN  IF ~new_func_tree.ok
            THEN Outcome(f, HTTPException(400, "SyntaxError"))
            ELSE IF \/ new_func_tree.body = <<>>
                    \/ ~IsFunction(new_func_tree.body[1])
            THEN Outcome(f, HTTPException(400, "NoFunctionDefinition"))
            ELSE Outcome(
                    write_global_tools_ast(
                        Append(tree.body, new_func_tree.body[1])),
                    Returned(201, tool_func))

\* a create that inserts the new declaration in front of the others
create_tool_function_prepend(f, tool_func) ==
    LET tree == read_global_tools_ast(f)
    IN  IF ~tree.ok
        THEN Outcome(f, HTTPException(500, "StorageCorrupt"))
        ELSE IF find_function_node(tree.body, tool_func.name) # NoNode
        THEN Outcome(f, HTTPException(409, "AlreadyExists"))
        ELSE
        LET new_func_tree == ast_parse(strip(tool_func.code))
        IN  IF ~new_func_tree.ok
            THEN Outcome(f, HTTPException(400, "SyntaxError"))
            ELSE IF \/ new_func_tree.body = <<>>
                    \/ ~IsFunction(new_func_tree.body[1])
            THEN Outcome(f, HTTPException(400, "NoFunctionDefinition"))
            ELSE IF new_func_tree.body[1].name # tool_func.name
            THEN Outcome(f, HTTPException(400, "NameMismatch"))
            ELSE Outcome(
                    write_global_tools_ast(
                        <<new_func_tree.body[1]>> \o tree.body),
                    Returned(201, tool_func))

\* a create that answers a name collision as a bad request
create_tool_function_conflict400(f, tool_func) ==
    LET tree == read_global_tools_ast(f)
    IN  IF ~tree.ok
        THEN Outcome(f, HTTPException(500, "StorageCorrupt"))
        ELSE IF find_function_node(tree.body, tool_func.name) # NoNode
        THEN Outcome(f, HTTPException(400, "AlreadyExists"))
        ELSE
        LET new_func_tree == ast_parse(strip(tool_func.code))
        IN  IF ~new_func_tree.ok
            THEN Outcome(f, HTTPException(400, "SyntaxError"))
            ELSE IF \/ new_func_tree.body = <<>>
                    \/ ~IsFunction(new_func_tree.body[1])
            THEN Outcome(f, HTTPException(400, "NoFunctionDefinition"))
            ELSE IF new_func_tree.body[1].name # tool_func.name
            THEN Outcome(f, HTTPException(400, "NameMismatch"))
            ELSE Outcome(
                    write_global_tools_ast(
                        Append(tree.body, new_func_tree.body[1])),
                    Returned(201, tool_func))

\* POST /tools
create_tool_function(f, tool_func) ==
    LET tree == read_global_tools_ast(f)
    IN  IF ~tree.ok
        THEN Outcome(f, HTTPException(500, "StorageCorrupt"))
        ELSE IF find_function_node(tree.body, tool_func.name) # NoNode
        THEN Outcome(f, HTTPException(409, "AlreadyExists"))
        ELSE
        LET new_func_tree == ast_parse(strip(tool_func.code))
        IN  IF ~new_func_tree.ok
            THEN Outcome(f, HTTPException(400, "SyntaxError"))
            ELSE IF \/ new_func_tree.body = <<>>
                    \/ ~IsFunction(new_func_tree.body[1])
            THEN Outcome(f, HTTPException(400, "NoFunctionDefinition"))
            ELSE IF new_func_tree.body[1].name # tool_func.name
            THEN Outcome(f, HTTPException(400, "NameMismatch"))
            ELSE Outcome(
                    write_global_tools_ast(
                        Append(tree.body, new_func_tree.body[1])),
                    Returned(201, tool_func))

\* a list that names every node of the walk, function definition or not
list_tool_functions_all(f) ==
    LET tree == read_global_tools_ast(f)
    IN  IF ~tree.ok
        THEN Outcome(f, HTTPException(500, "StorageCorrupt"))
        ELSE
        LET funcs == ast_walk(tree.body)
        IN  Outcome(f, [status |-> 200, detail |-> "",
                        body |-> ToolFunction("", <<>>),
                        names |-> [i \in 1..Len(funcs) |-> funcs[i].name]])

\* GET /tools
list_tool_functions(f) ==
    LET tree == read_global_tools_ast(f)
    IN  IF ~tree.ok
        THEN Outcome(f, HTTPException(500, "StorageCorrupt"))
        ELSE
        LET funcs == SelectSeq(ast_walk(tree.body), IsFunction)
        IN  Outcome(f, [status |-> 200, detail |-> "",
                        body |-> ToolFunction("", <<>>),
                        names |-> [i \in 1..Len(funcs) |-> funcs[i].name]])

\* a get_tool_function that writes the parsed tree back
get_tool_function_rewrite(f, function_name) ==
    LET tree == read_global_tools_ast(f)
    IN  IF ~tree.ok
        THEN Outcome(f, HTTPException(500, "StorageCorrupt"))
        ELSE
        LET code == get_function_code(tree.body, function_name)
        IN  IF ~code.found
            THEN Outcome(f, HTTPException(404, "NotFound"))
            ELSE Outcome(write_global_tools_ast(tree.body),
                         Returned(200, ToolFunction(function_name, code.code)))

\* GET /tools/{function_name}
get_tool_function(f, function_name) ==
    LET tree == read_global_tools_ast(f)
    IN  IF ~tree.ok
        THEN Outcome(f, HTTPException(500, "StorageCorrupt"))
        ELSE
        LET code == get_function_code(tree.body, function_name)
        IN  IF ~code.found
            THEN Outcome(f, HTTPException(404, "NotFound"))
            ELSE Outcome(f, Returned(200, ToolFunction(function_name, code.code)))

\* the index of the first top-level function definition named function_name,
\* 0 when the for loop runs to its else branch
ReplaceIndex(body, function_name) ==
    LET hits == {i \in 1..Len(body) :
                    IsFunction(body[i]) /\ body[i].name = function_name}
    IN  IF hits = {} THEN 0 ELSE CHOOSE i \in hits : \A j \in hits : i <= j

\* an update that compares the path name with the body name only after the
\* existence check
update_tool_function_late(f, function_name, tool_func) ==
    LET tree == read_global_tools_ast(f)
    IN  IF ~tree.ok
        THEN Outcome(f, HTTPException(500, "StorageCorrupt"))
        ELSE IF find_function_node(tree.body, function_name) = NoNode
        THEN Outcome(f, HTTPException(404, "NotFound"))
        ELSE IF function_name # tool_func.name
        THEN Outcome(f, HTTPException(400, "PathBodyMismatch"))
        ELSE
        LET new_func_tree == ast_parse(strip(tool_func.code))
            i == ReplaceIndex(tree.body, function_name)
        IN  IF ~new_func_tree.ok
            THEN Outcome(f, HTTPException(400, "SyntaxError"))
            ELSE IF \/ new_func_tree.body = <<>>
                    \/ ~IsFunction(new_func_tree.body[1])
            THEN Outcome(f, HTTPException(400, "NoFunctionDefinition"))
            ELSE IF new_func_tree.body[1].name # function_name
            THEN Outcome(f, HTTPException(400, "NameMismatch"))
            ELSE IF i = 0
            THEN Outcome(f, HTTPException(500, "NoNodeIndex"))
            ELSE Outcome(
                    write_global_tools_ast(
                        [tree.body EXCEPT ![i] = new_func_tree.body[1]]),
                    Returned(200, tool_func))

\* PUT /tools/{function_name}
update_tool_function(f, function_name, tool_func) ==
    IF function_name # tool_func.name
    THEN Outcome(f, HTTPException(400, "PathBodyMismatch"))
    ELSE
    LET tree == read_global_tools_ast(f)
    IN  IF ~tree.ok
        THEN Outcome(f, HTTPException(500, "StorageCorrupt"))
        ELSE IF find_function_node(tree.body, function_name) = NoNode
        THEN Outcome(f, HTTPException(404, "NotFound"))
        ELSE
        LET new_func_tree == ast_parse(strip(tool_func.code))
            i == ReplaceIndex(tree.body, function_name)
        IN  IF ~new_func_tree.ok
            THEN Outcome(f, HTTPException(400, "SyntaxError"))
            ELSE IF \/ new_func_tree.body = <<>>
                    \/ ~IsFunction(new_func_tree.body[1])
            THEN Outcome(f, HTTPException(400, "NoFunctionDefinition"))
            ELSE IF new_func_tree.body[1].name # function_name
            THEN Outcome(f, HTTPException(400, "NameMismatch"))
            ELSE IF i = 0
            THEN Outcome(f, HTTPException(500, "NoNodeIndex"))
            ELSE Outcome(
                    write_global_tools_ast(
                        [tree.body EXCEPT ![i] = new_func_tree.body[1]]),
                    Returned(200, tool_func))

\* a delete that writes the filtered tree before it checks what was removed
delete_tool_function_eager(f, function_name) ==
    LET tree == read_global_tools_ast(f)
    IN  IF ~tree.ok
        THEN Outcome(f, HTTPException(500, "StorageCorrupt"))
        ELSE
        LET Keep(node) == ~(IsFunction(node) /\ node.name = function_name)
            new_body == SelectSeq(tree.body, Keep)
        IN  IF Len(new_body) = Len(tree.body)
            THEN Outcome(write_global_tools_ast(new_body),
                         HTTPException(404, "NotFound"))
            ELSE Outcome(write_global_tools_ast(new_body),
                         Returned(204, ToolFunction("", <<>>)))

\* a delete that filters out every function definition
delete_tool_function_allfuncs(f, function_name) ==
    LET tree == read_global_tools_ast(f)
    IN  IF ~tree.ok
        THEN Outcome(f, HTTPException(500, "StorageCorrupt"))
        ELSE
        LET Keep(node) == ~(IsFunction(node) /\ node.name = function_name)
            new_body == SelectSeq(tree.body, Keep)
            NotFunction(node) == ~IsFunction(node)
        IN  IF Len(new_body) = Len(tree.body)
            THEN Outcome(f, HTTPException(404, "NotFound"))
            ELSE Outcome(write_global_tools_ast(SelectSeq(tree.body, NotFunction)),
                         Returned(204, ToolFunction("", <<>>)))

\* DELETE /tools/{function_name}
delete_tool_function(f, function_name) ==
    LET tree == read_global_tools_ast(f)
    IN  IF ~tree.ok
        THEN Outcome(f, HTTPException(500, "StorageCorrupt"))
        ELSE
        LET Keep(node) == ~(IsFunction(node) /\ node.name = function_name)
            new_body == SelectSeq(tree.body, Keep)
        IN  IF Len(new_body) = Len(tree.body)
            THEN Outcome(f, HTTPException(404, "NotFound"))
            ELSE Outcome(write_global_tools_ast(new_body),
                         Returned(204, ToolFunction("", <<>>)))

\* ------------------------------------------------------ submitted code
Def(n, v) == Stmt(FunctionDef(n, v, <<>>), "authored")

Codes ==
    {<<>>, <<Garbage>>, <<Stmt(Assign, "authored")>>}
    \cup {<<Def(m, v)>> : m \in Names, v \in Vers}
    \cup {<<Stmt(AsyncFunctionDef(m, 1, <<>>), "authored")>> : m \in Names}
    \cup {<<Stmt(FunctionDef(m, 1, <<FunctionDef(k, 1, <<>>)>>), "authored")>> :
            m \in Names, k \in Names}
    \cup {<<Def(m, 1), Def(k, 1)>> : m \in Names, k \in Names}
    \cup {<<Def(m, 1), Stmt(Assign, "authored")>> : m \in Names}
    \cup {<<Stmt(Assign, "authored"), Def(m, 1)>> : m \in Names}
    \cup {<<Space, Def(m, 1), Eol>> : m \in Names}

\* ------------------------------------------------------- initial files
\* the file module startup writes when global_tools.py does not exist
StartupFile ==
    <<Comment, Stmt(Import, "canonical"), Stmt(ImportFrom, "canonical"),
      Blank, Eol>>

\* a global_tools.py that was damaged outside the API
CorruptFile == <<Stmt(Import, "canonical"), Garbage, Eol>>

\* a global_tools.py that exists at startup and already holds a function
\* written by hand (comments, authored formatting)
ShippedFile ==
    <<Comment, Stmt(Import, "canonical"), Stmt(ImportFrom, "canonical"),
      Blank, Stmt(FunctionDef("g", 1, <<>>), "authored"), Comment, Eol>>

InitFiles == {StartupFile, ShippedFile, CorruptFile}

\* number of top-level function definitions in a text
NumFuncs(text) ==
    Cardinality({i \in 1..Len(text) :
                    text[i].tok = "stmt" /\ IsFunction(text[i].node)})

\* ------------------------------------------------------------- agents
\* agent names as the name validator of AgentConfig returns them
AgentNames == {"a", "b"}

\* no directory of that name under managed_agents
NoDir == [exists |-> FALSE]

\* no agent request or response yet
NoAgentRequest == [op |-> "none"]

NoAgentResponse == [status |-> 0]

\* no get_weather call yet
NoCall == [kind |-> "none"]

\* no scenario is being run
NoScenario == [calls |-> 0, name |-> "", first |-> 0, second |-> 0, eol |-> FALSE]

\* the scenario has not started, managed_agents is empty (os.makedirs at
\* startup), no agent request was received, get_weather was not called
Rest ==
    /\ step = NoScenario
    /\ agents = [a \in AgentNames |-> NoDir]
    /\ agents_before = agents
    /\ agent_request = NoAgentRequest
    /\ agent_response = NoAgentResponse
    /\ weather_in = NoCall
    /\ weather_out = NoCall

\* -------------------------------------------------------- specification
\* no process is handling a request
Idle ==
    /\ pc = [w \in Workers |-> "idle"]
    /\ job = [w \in Workers |-> NoRequest]
    /\ snap = [w \in Workers |-> <<>>]
    /\ reply = [w \in Workers |-> NoResponse]

Init ==
    /\ file \in InitFiles
    /\ file_before = file
    /\ request = NoRequest
    /\ response = NoResponse
    /\ Idle
    /\ Rest

\* the handler's outcome becomes the state
Handle(req, out) ==
    /\ request' = req
    /\ file' = out.file
    /\ response' = out.response
    /\ UNCHANGED <<procVars, otherVars>>

Create ==
    \E n \in Names, code \in Codes :
        LET out == create_tool_function(file, ToolFunction(n, code))
        IN  /\ NumFuncs(out.file) <= MaxFuncs
            /\ file_before' = file
            /\ Handle(Request("create", n, ToolFunction(n, code)), out)

List ==
    /\ file_before' = file
    /\ Handle(Request("list", "", ToolFunction("", <<>>)),
              list_tool_functions(file))

Read ==
    \E n \in Names :
        /\ file_before' = file
        /\ Handle(Request("read", n, ToolFunction(n, <<>>)),
                  get_tool_function(file, n))

\* the body name differs from the path name only with one fixed code: the
\* handler rejects the request before it looks at the code
Update ==
    \E n \in Names, m \in Names, code \in Codes :
        /\ m # n => code = <<Def(m, 1)>>
        /\ file_before' = file
        /\ Handle(Request("update", n, ToolFunction(m, code)),
                  update_tool_function(file, n, ToolFunction(m, code)))

Delete ==
    \E n \in Names :
        /\ file_before' = file
        /\ Handle(Request("delete", n, ToolFunction(n, <<>>)),
                  delete_tool_function(file, n))

Next == Create \/ List \/ Read \/ Update \/ Delete

Spec == Init /\ [][Next]_vars

\* ------------------------------------------- handlers of two processes
\* a write that is dropped when the file is no longer the text that was read
WriteChecked(current, source_code, new_source_code) ==
    IF current = source_code THEN new_source_code ELSE current

\* a write that opens the file in append mode
WriteAppend(current, source_code, new_source_code) == current \o new_source_code

\* open(GLOBAL_TOOLS_FILE, "w") and f.write: the file becomes the new text,
\* whatever it holds by now
Write(current, source_code, new_source_code) == new_source_code

\* the handler of a request, run on the text it has read
Dispatch(source_code, req) ==
    CASE req.op = "create" -> create_tool_function(source_code, req.tool_func)
      [] req.op = "update" ->
            update_tool_function(source_code, req.function_name, req.tool_func)
      [] req.op = "delete" -> delete_tool_function(source_code, req.function_name)
      [] OTHER -> Outcome(source_code, NoResponse)

\* the mutating requests the processes receive
ConcRequests ==
    {Request("create", n, ToolFunction(n, <<Def(n, v)>>)) :
        n \in Names, v \in Vers}
    \cup {Request("update", n, ToolFunction(n, <<Def(n, v)>>)) :
        n \in Names, v \in Vers}
    \cup {Request("delete", n, ToolFunction(n, <<>>)) : n \in Names}

\* the file after create(f, version 1) and create(g, version 1) on the
\* startup file
TwoFunctionFile ==
    write_global_tools_ast(
        <<Import, ImportFrom, FunctionDef("f", 1, <<>>), FunctionDef("g", 1, <<>>)>>)

InitConc ==
    /\ file \in {StartupFile, ShippedFile, TwoFunctionFile}
    /\ file_before = file
    /\ request = NoRequest
    /\ response = NoResponse
    /\ Idle
    /\ Rest

\* a process receives a request and its handler reads the file
Begin ==
    \E w \in Workers, req \in ConcRequests :
        /\ pc[w] = "idle"
        /\ pc' = [pc EXCEPT ![w] = "read"]
        /\ job' = [job EXCEPT ![w] = req]
        /\ snap' = [snap EXCEPT ![w] = file]
        /\ UNCHANGED <<file, file_before, request, response, reply, otherVars>>

\* the handler validates, changes its tree, writes the file if nothing was
\* raised, and answers
Finish ==
    \E w \in Workers :
        LET out == Dispatch(snap[w], job[w])
        IN  /\ pc[w] = "read"
            /\ NumFuncs(out.file) <= MaxFuncs
            /\ pc' = [pc EXCEPT ![w] = "done"]
            /\ reply' = [reply EXCEPT ![w] = out.response]
            /\ file' = IF out.response.status \in {200, 201, 204}
                       THEN Write(file, snap[w], out.file)
                       ELSE file
            /\ UNCHANGED <<file_before, request, response, job, snap, otherVars>>

NextConc == Begin \/ Finish

SpecConc == InitConc /\ [][NextConc]_vars

\* ------------------------------------------------ end-to-end scenario
\* the file after the first function was created on the startup file and
\* deleted again
RewrittenFile == write_global_tools_ast(<<Import, ImportFrom>>)

\* the stores without a function the API can be in
EmptyStores == {StartupFile, RewrittenFile}

\* the text of a function definition as a client sends it, with or without
\* a final newline
CodeText(n, v, eol) == IF eol THEN <<Def(n, v), Eol>> ELSE <<Def(n, v)>>

\* a client picks the name and the two bodies and has made no call yet
InitScenario ==
    /\ file \in EmptyStores
    /\ file_before = file
    /\ request = NoRequest
    /\ response = NoResponse
    /\ Idle
    /\ step \in [calls : {0}, name : Names, first : Vers, second : Vers,
                 eol : BOOLEAN]
    /\ agents = [a \in AgentNames |-> NoDir]
    /\ agents_before = agents
    /\ agent_request = NoAgentRequest
    /\ agent_response = NoAgentResponse
    /\ weather_in = NoCall
    /\ weather_out = NoCall

\* the k-th call of the scenario is made and handled
Call(k, req, out) ==
    /\ step.calls = k - 1
    /\ step' = [step EXCEPT !.calls = k]
    /\ request' = req
    /\ file' = out.file
    /\ response' = out.response
    /\ UNCHANGED <<procVars, agentVars, weatherVars>>

ScenarioCreate ==
    LET tool_func == ToolFunction(step.name,
                                  CodeText(step.name, step.first, step.eol))
    IN  /\ file_before' = file
        /\ Call(1, Request("create", step.name, tool_func),
                create_tool_function(file, tool_func))

ScenarioList ==
    \E k \in {2, 6} :
        /\ file_before' = file
        /\ Call(k, Request("list", "", ToolFunction("", <<>>)),
                list_tool_functions(file))

ScenarioUpdate ==
    LET tool_func == ToolFunction(step.name,
                                  CodeText(step.name, step.second, step.eol))
    IN  /\ file_before' = file
        /\ Call(3, Request("update", step.name, tool_func),
                update_tool_function(file, step.name, tool_func))

ScenarioRead ==
    /\ file_before' = file
    /\ Call(4, Request("read", step.name, ToolFunction(step.name, <<>>)),
            get_tool_function(file, step.name))

ScenarioDelete ==
    /\ file_before' = file
    /\ Call(5, Request("delete", step.name, ToolFunction(step.name, <<>>)),
            delete_tool_function(file, step.name))

NextScenario ==
    \/ ScenarioCreate
    \/ ScenarioList
    \/ ScenarioUpdate
    \/ ScenarioRead
    \/ ScenarioDelete

SpecScenario == InitScenario /\ [][NextScenario]_vars

\* ------------------------------------------------------ agent endpoints
\* AgentConfig: name, instruction and tool_references; model and description
\* keep their defaults
AgentConfig(n, refs) ==
    [name |-> n, instruction |-> "instruction", tool_references |-> refs]

\* the lists of tool names a client submits: none, one name, two names out
\* of order with one of them twice
ToolRefs == {<<>>, <<"f">>, <<"g", "f", "g">>}

\* the tool names in sort order
SortedNames == <<"f", "g">>

\* sorted(list(set(tool_references)))
unique_tools(tool_references) ==
    LET Referenced(n) == \E i \in 1..Len(tool_references) : tool_references[i] = n
    IN  SelectSeq(SortedNames, Referenced)

\* generate_agent_py_code: the import statement and the tools list name the
\* unique references in sort order; the Agent call carries name and
\* instruction; neither is there without references
generate_agent_py_code(config) ==
    [kind |-> "agent.py", name |-> config.name,
     instruction |-> config.instruction,
     import_statement |-> unique_tools(config.tool_references),
     tools_list |-> unique_tools(config.tool_references)]

\* config.model_dump_json(indent=2)
model_dump_json(config) == [kind |-> "json", config |-> config]

\* init_content of write_agent_init_file
init_content == [kind |-> "__init__.py"]

\* a path that does not exist
NoFile == [kind |-> "missing"]

\* a file that was opened for writing and whose write failed
Torn == [kind |-> "torn"]

\* an agent directory and its three files
Dir(config_json, init_py, agent_py) ==
    [exists |-> TRUE, agent_config_json |-> config_json,
     init_py |-> init_py, agent_py |-> agent_py]

\* the agent directory the repository ships: __init__.py and agent.py, no
\* agent_config.json
ShippedDir ==
    Dir(NoFile, init_content,
        generate_agent_py_code(AgentConfig("a", <<"g", "f", "g">>)))

\* where an OSError is raised while the directory and its files are written:
\* nowhere, in makedirs, or in the open or the write of one of the files
Faults ==
    {"none", "makedirs", "config_open", "config_write", "init_open",
     "init_write", "agent_py_open", "agent_py_write"}

\* write_agent_config_file: the directory it leaves, and whether it raised
write_agent_config_file(dir, config, fault) ==
    IF fault = "config_open" THEN [dir |-> dir, raised |-> TRUE]
    ELSE IF fault = "config_write"
    THEN [dir |-> [dir EXCEPT !.agent_config_json = Torn], raised |-> TRUE]
    ELSE [dir |-> [dir EXCEPT !.agent_config_json = model_dump_json(config)],
          raised |-> FALSE]

\* write_agent_init_file
write_agent_init_file(dir, fault) ==
    IF fault = "init_open" THEN [dir |-> dir, raised |-> TRUE]
    ELSE IF fault = "init_write"
    THEN [dir |-> [dir EXCEPT !.init_py = Torn], raised |-> TRUE]
    ELSE [dir |-> [dir EXCEPT !.init_py = init_content], raised |-> FALSE]

\* write_agent_py_file
write_agent_py_file(dir, config, fault) ==
    IF fault = "agent_py_open" THEN [dir |-> dir, raised |-> TRUE]
    ELSE IF fault = "agent_py_write"
    THEN [dir |-> [dir EXCEPT !.agent_py = Torn], raised |-> TRUE]
    ELSE [dir |-> [dir EXCEPT !.agent_py = generate_agent_py_code(config)],
          raised |-> FALSE]

\* the three writes of create_agent and update_agent, in order, up to the
\* first that raises
write_agent_files(dir, config, fault) ==
    LET c == write_agent_config_file(dir, config, fault)
        i == IF c.raised THEN c ELSE write_agent_init_file(c.dir, fault)
    IN  IF i.raised THEN i ELSE write_agent_py_file(i.dir, config, fault)

\* path names with a character get_agent_dir refuses
DottedNames == {"a.b"}

\* get_agent_dir: 400 for a name with "/", "\" or "."
get_agent_dir(agent_name) ==
    [ok |-> agent_name \notin DottedNames, path |-> agent_name]

\* an agent request
AgentRequest(op, agent_name, agent_config, fault) ==
    [op |-> op, agent_name |-> agent_name, agent_config |-> agent_config,
     fault |-> fault]

NoConfig == AgentConfig("", <<>>)

\* a response of an agent endpoint: an HTTPException, an AgentRead, or the
\* list of names
AgentRaised(status_code) ==
    [status |-> status_code, config |-> NoConfig, names |-> {}]

AgentRead(status_code, config) ==
    [status |-> status_code, config |-> config, names |-> {}]

\* what an agent handler does: the directories it leaves and its response
AgentOutcome(ags, resp) == [agents |-> ags, response |-> resp]

\* a create_agent that leaves the directory as it is when a write raises
create_agent_nocleanup(ags, agent_config, fault) ==
    LET agent_dir == get_agent_dir(agent_config.name)
        written == write_agent_files(Dir(NoFile, NoFile, NoFile),
                                     agent_config, fault)
    IN  IF ~agent_dir.ok THEN AgentOutcome(ags, AgentRaised(400))
        ELSE IF ags[agent_dir.path].exists
        THEN AgentOutcome(ags, AgentRaised(409))
        ELSE IF fault = "makedirs" THEN AgentOutcome(ags, AgentRaised(500))
        ELSE IF written.raised
        THEN AgentOutcome([ags EXCEPT ![agent_dir.path] = written.dir],
                          AgentRaised(500))
        ELSE AgentOutcome([ags EXCEPT ![agent_dir.path] = written.dir],
                          AgentRead(201, agent_config))

\* POST /agents: 409 when the directory exists; else makedirs and the three
\* writes; when one raises, the directory is removed if it exists
create_agent(ags, agent_config, fault) ==
    LET agent_dir == get_agent_dir(agent_config.name)
        written == write_agent_files(Dir(NoFile, NoFile, NoFile),
                                     agent_config, fault)
    IN  IF ~agent_dir.ok THEN AgentOutcome(ags, AgentRaised(400))
        ELSE IF ags[agent_dir.path].exists
        THEN AgentOutcome(ags, AgentRaised(409))
        ELSE IF fault = "makedirs" THEN AgentOutcome(ags, AgentRaised(500))
        ELSE IF written.raised
        THEN AgentOutcome([ags EXCEPT ![agent_dir.path] = NoDir],
                          AgentRaised(500))
        ELSE AgentOutcome([ags EXCEPT ![agent_dir.path] = written.dir],
                          AgentRead(201, agent_config))

\* GET /agents: the names of the directories under managed_agents
list_agents(ags) ==
    AgentOutcome(ags, [status |-> 200, config |-> NoConfig,
                       names |-> {d \in DOMAIN ags : ags[d].exists}])

\* GET /agents/{agent_name}: the configuration read from agent_config.json
get_agent(ags, agent_name) ==
    LET agent_dir == get_agent_dir(agent_name)
    IN  IF ~agent_dir.ok THEN AgentOutcome(ags, AgentRaised(400))
        ELSE IF \/ ~ags[agent_dir.path].exists
                \/ ags[agent_dir.path].agent_config_json = NoFile
        THEN AgentOutcome(ags, AgentRaised(404))
        ELSE IF ags[agent_dir.path].agent_config_json = Torn
        THEN AgentOutcome(ags, AgentRaised(500))
        ELSE AgentOutcome(ags,
                AgentRead(200, ags[agent_dir.path].agent_config_json.config))

\* PUT /agents/{agent_name}: 400 when path and body name differ, 404 when
\* the directory does not exist; else the three writes, nothing undone when
\* one raises
update_agent(ags, agent_name, agent_config, fault) ==
    IF agent_name # agent_config.name THEN AgentOutcome(ags, AgentRaised(400))
    ELSE
    LET agent_dir == get_agent_dir(agent_name)
    IN  IF ~agent_dir.ok THEN AgentOutcome(ags, AgentRaised(400))
        ELSE IF ~ags[agent_dir.path].exists
        THEN AgentOutcome(ags, AgentRaised(404))
        ELSE
        LET written == write_agent_files(ags[agent_dir.path], agent_config, fault)
        IN  IF written.raised
            THEN AgentOutcome([ags EXCEPT ![agent_dir.path] = written.dir],
                              AgentRaised(500))
            ELSE AgentOutcome([ags EXCEPT ![agent_dir.path] = written.dir],
                              AgentRead(200, agent_config))

\* DELETE /agents/{agent_name}: shutil.rmtree of the directory
delete_agent(ags, agent_name) ==
    LET agent_dir == get_agent_dir(agent_name)
    IN  IF ~agent_dir.ok THEN AgentOutcome(ags, AgentRaised(400))
        ELSE IF ~ags[agent_dir.path].exists
        THEN AgentOutcome(ags, AgentRaised(404))
        ELSE AgentOutcome([ags EXCEPT ![agent_dir.path] = NoDir],
                          AgentRead(204, NoConfig))

\* the working directory of the server: global_tools.py and managed_agents
Disk(f, ags) == [global_tools |-> f, managed_agents |-> ags]

\* a sequence without the elements equal to n
Without(seq, n) ==
    LET Other(x) == x # n
    IN  SelectSeq(seq, Other)

\* an agent directory whose configuration and agent.py no longer name n
Unreferenced(dir, n) ==
    IF dir.exists /\ dir.agent_config_json \notin {NoFile, Torn}
    THEN LET config == [dir.agent_config_json.config EXCEPT
                            !.tool_references = Without(@, n)]
         IN  [dir EXCEPT !.agent_config_json = model_dump_json(config),
                         !.agent_py = generate_agent_py_code(config)]
    ELSE dir

\* a delete that also takes the function out of every agent that names it
delete_tool_function_cascade(disk, function_name) ==
    LET out == delete_tool_function(disk.global_tools, function_name)
    IN  [disk |-> IF out.response.status = 204
                  THEN Disk(out.file,
                            [a \in DOMAIN disk.managed_agents |->
                                Unreferenced(disk.managed_agents[a], function_name)])
                  ELSE disk,
         response |-> out.response]

\* DELETE /tools/{function_name} on the working directory: the handler opens
\* GLOBAL_TOOLS_FILE and no path under MANAGED_AGENTS_DIR
delete_tool_function_disk(disk, function_name) ==
    LET out == delete_tool_function(disk.global_tools, function_name)
    IN  [disk |-> [disk EXCEPT !.global_tools = out.file],
         response |-> out.response]

InitAgents ==
    /\ file \in {StartupFile, ShippedFile}
    /\ file_before = file
    /\ request = NoRequest
    /\ response = NoResponse
    /\ Idle
    /\ step = NoScenario
    /\ agents \in {[a \in AgentNames |-> NoDir],
                   [a \in AgentNames |-> IF a = "a" THEN ShippedDir ELSE NoDir]}
    /\ agents_before = agents
    /\ agent_request = NoAgentRequest
    /\ agent_response = NoAgentResponse
    /\ weather_in = NoCall
    /\ weather_out = NoCall

\* a tool endpoint has handled a request
HandleTool(req, disk, resp) ==
    /\ agents_before' = agents
    /\ request' = req
    /\ response' = resp
    /\ file' = disk.global_tools
    /\ agents' = disk.managed_agents
    /\ agent_request' = NoAgentRequest
    /\ agent_response' = NoAgentResponse
    /\ UNCHANGED <<procVars, step, weatherVars>>

\* an agent endpoint has handled a request
HandleAgent(req, out) ==
    /\ agents_before' = agents
    /\ agent_request' = req
    /\ agent_response' = out.response
    /\ agents' = out.agents
    /\ request' = NoRequest
    /\ response' = NoResponse
    /\ UNCHANGED <<file, procVars, step, weatherVars>>

CreateTool ==
    \E n \in Names :
        LET tool_func == ToolFunction(n, <<Def(n, 1)>>)
            out == create_tool_function(file, tool_func)
        IN  /\ file_before' = file
            /\ HandleTool(Request("create", n, tool_func),
                          Disk(out.file, agents), out.response)

DeleteTool ==
    \E n \in Names :
        LET out == delete_tool_function_disk(Disk(file, agents), n)
        IN  /\ file_before' = file
            /\ HandleTool(Request("delete", n, ToolFunction(n, <<>>)),
                          out.disk, out.response)

CreateAgent ==
    \E a \in AgentNames, refs \in ToolRefs, fault \in Faults :
        /\ file_before' = file
        /\ HandleAgent(AgentRequest("create_agent", a, AgentConfig(a, refs), fault),
                       create_agent(agents, AgentConfig(a, refs), fault))

ListAgents ==
    /\ file_before' = file
    /\ HandleAgent(AgentRequest("list_agents", "", NoConfig, "none"),
                   list_agents(agents))

GetAgent ==
    \E a \in AgentNames \cup DottedNames :
        /\ file_before' = file
        /\ HandleAgent(AgentRequest("get_agent", a, NoConfig, "none"),
                       get_agent(agents, a))

\* of the faults, an update meets the one that raises before anything is
\* written
UpdateAgent ==
    \E a \in AgentNames, b \in AgentNames, refs \in ToolRefs,
       fault \in {"none", "config_open"} :
        /\ file_before' = file
        /\ HandleAgent(AgentRequest("update_agent", a, AgentConfig(b, refs), fault),
                       update_agent(agents, a, AgentConfig(b, refs), fault))

DeleteAgent ==
    \E a \in AgentNames \cup DottedNames :
        /\ file_before' = file
        /\ HandleAgent(AgentRequest("delete_agent", a, NoConfig, "none"),
                       delete_agent(agents, a))

NextAgents ==
    \/ CreateTool
    \/ DeleteTool
    \/ CreateAgent
    \/ ListAgents
    \/ GetAgent
    \/ UpdateAgent
    \/ DeleteAgent

SpecAgents == InitAgents /\ [][NextAgents]_vars

\* ---------------------------------------------------------- get_weather
\* os.environ.get("OPENWEATHERMAP_API_KEY"): not set, set to "", set
ApiKeys == {"unset", "empty", "set"}

\* geolocator.geocode(city, timeout=10): None, a location, or an exception
\* (GeocoderTimedOut, GeocoderServiceError, any other)
Geocodes ==
    {"None", "location", "GeocoderTimedOut", "GeocoderServiceError", "Exception"}

\* status codes of the weather response: 200, another code below 400, and
\* codes raise_for_status raises for
StatusCodes == {200, 202, 400, 401, 429, 500}

\* the "current" member of a JSON object: absent, {}, not an object, an
\* object without temp, with a temp that is not a number, with a weather list
\* whose first element is not an object, with temp alone, with temp and
\* weather description
Currents ==
    {"absent", "empty", "not_dict", "no_temp", "temp_not_number",
     "weather_not_dicts", "temp_only", "temp_and_weather"}

\* response bodies: not JSON (response.json() raises the JSONDecodeError of
\* requests, a RequestException and a ValueError, or with older releases a
\* plain ValueError), a JSON value that is not an object, a JSON object with
\* or without "message" and with each kind of "current"
Bodies ==
    {[json |-> "invalid", error |-> e, message |-> FALSE, current |-> "absent"] :
        e \in {"JSONDecodeError", "ValueError"}}
    \cup {[json |-> j, error |-> "", message |-> FALSE, current |-> "absent"] :
        j \in {"array", "string", "number", "null"}}
    \cup {[json |-> "object", error |-> "", message |-> m, current |-> c] :
        m \in BOOLEAN, c \in Currents}

\* requests.get(base_url, params=params, timeout=10): an exception or a
\* response
NoBody == [json |-> "none", error |-> "", message |-> FALSE, current |-> "absent"]

HttpOutcomes ==
    {[kind |-> k, status_code |-> 0, body |-> NoBody] :
        k \in {"ConnectionError", "Timeout", "RequestException"}}
    \cup {[kind |-> "response", status_code |-> c, body |-> b] :
        c \in StatusCodes, b \in Bodies}

\* what the environment of one get_weather call answers
WeatherEnvs == [api_key : ApiKeys, geocode : Geocodes, http : HttpOutcomes]

\* get_weather returned {"status": "error", "error_message": ...}
Error(error_message) ==
    [kind |-> "return", status |-> "error", key |-> "error_message",
     text |-> error_message]

\* get_weather returned {"status": "success", "report": ...}
Success(report) ==
    [kind |-> "return", status |-> "success", key |-> "report", text |-> report]

\* an exception left get_weather
Escaped(exception) ==
    [kind |-> "raise", status |-> "", key |-> "", text |-> exception]

\* except requests.exceptions.HTTPError: the message is taken from
\* http_err.response.json().get('message', ...), guarded against ValueError
\* only; then the error is worded by status code
HTTPError_handler(resp) ==
    IF resp.body.json \notin {"invalid", "object"}
    THEN Escaped("AttributeError")
    ELSE CASE resp.status_code = 401 -> Error("Authentication error")
           [] resp.status_code = 400 -> Error("Bad request to OpenWeatherMap API")
           [] resp.status_code = 429 -> Error("Rate limit exceeded")
           [] OTHER -> Error("HTTP error occurred")

\* step 4 and 5 of the try block: parse the response which raise_for_status
\* let through and build the report
ParseWeather(resp) ==
    LET weather_data == resp.body
    IN  IF weather_data.json = "invalid"
        THEN IF weather_data.error = "JSONDecodeError"
             THEN Error("An error occurred during the weather request")
             ELSE Error("An unexpected error occurred")
        ELSE IF weather_data.json # "object"
        THEN Error("An unexpected error occurred")
        ELSE IF weather_data.message /\ resp.status_code # 200
        THEN Error("OpenWeatherMap API error")
        ELSE IF weather_data.current \in {"absent", "empty"}
        THEN Error("Could not find 'current' weather data")
        ELSE IF weather_data.current \in {"not_dict", "weather_not_dicts"}
        THEN Error("An unexpected error occurred")
        ELSE IF weather_data.current = "no_temp"
        THEN Error("Could not find temperature data")
        ELSE IF weather_data.current = "temp_not_number"
        THEN Error("An unexpected error occurred")
        ELSE Success("The weather is currently")

\* get_weather(city) in an environment
get_weather(env) ==
    IF env.api_key \in {"unset", "empty"}
    THEN Error("OpenWeatherMap API key not configured")
    ELSE CASE env.geocode = "None" -> Error("couldn't geocode or find the city")
           [] env.geocode = "GeocoderTimedOut" ->
                Error("Geocoding service timed out")
           [] env.geocode = "GeocoderServiceError" ->
                Error("Geocoding service error")
           [] env.geocode = "Exception" -> Error("An unexpected error occurred")
           [] OTHER ->
                CASE env.http.kind = "ConnectionError" -> Error("Network error")
                  [] env.http.kind = "Timeout" -> Error("Request timed out")
                  [] env.http.kind = "RequestException" ->
                        Error("An error occurred during the weather request")
                  [] OTHER ->
                        IF env.http.status_code >= 400
                        THEN HTTPError_handler(env.http)
                        ELSE ParseWeather(env.http)

InitWeather ==
    /\ file = StartupFile
    /\ file_before = file
    /\ request = NoRequest
    /\ response = NoResponse
    /\ Idle
    /\ step = NoScenario
    /\ agents = [a \in AgentNames |-> NoDir]
    /\ agents_before = agents
    /\ agent_request = NoAgentRequest
    /\ agent_response = NoAgentResponse
    /\ weather_in \in WeatherEnvs
    /\ weather_out = NoCall

\* an agent calls the tool
GetWeather ==
    /\ weather_out = NoCall
    /\ weather_out' = get_weather(weather_in)
    /\ UNCHANGED <<file, file_before, request, response, procVars, step,
                   agentVars, weather_in>>

NextWeather == GetWeather

SpecWeather == InitWeather /\ [][NextWeather]_vars

\* ============================================================== claims
\* vocabulary of the claims
Mutating == request.op \in {"create", "update", "delete"}

Succeeded == response.status \in {200, 201, 204}

Failed == response.status >= 400

Unchanged == file = file_before

\* the name the request addresses
Addressed == request.function_name

Submitted == request.tool_func.code

\* the statements a text parses to (none when it does not parse)
BodyOf(text) == ast_parse(text).body

\* the names list() reports for a text
ListedNames(text) ==
    LET walk == ast_walk(BodyOf(text))
    IN  {walk[i].name : i \in {j \in 1..Len(walk) : IsFunction(walk[j])}}

\* the top-level function declarations of a text
TopLevel(text) ==
    {i \in 1..Len(text) : text[i].tok = "stmt" /\ IsFunction(text[i].node)}

\* number of function declarations the submitted code contains
FunctionCount(code) == Cardinality(TopLevel(code))

\* the submitted code parses and starts with a function declaration
HasDeclared(code) ==
    LET t == ast_parse(strip(code))
    IN  t.ok /\ t.body # <<>> /\ IsFunction(t.body[1])

DeclaredName(code) == ast_parse(strip(code)).body[1].name

\* the submitted code parses to exactly one declaration, a function named n
OneFunctionNamed(code, n) ==
    LET t == ast_parse(strip(code))
    IN  t.ok /\ Len(t.body) = 1 /\ IsFunction(t.body[1]) /\ t.body[1].name = n

\* the checks that precede the validation of the submitted code have passed
PassedExistence ==
    /\ ast_parse(file_before).ok
    /\ request.op = "create" => Addressed \notin ListedNames(file_before)
    /\ request.op = "update" =>
            /\ Addressed \in ListedNames(file_before)
            /\ request.tool_func.name = Addressed

InvalidDefinition ==
    response.status = 400
        /\ response.detail \in {"SyntaxError", "NoFunctionDefinition"}

NameMismatch == response.status = 400 /\ response.detail = "NameMismatch"

NotFound == response.status = 404 /\ response.detail = "NotFound"

AlreadyExists == response.status = 409 /\ response.detail = "AlreadyExists"

\* C1: the file never holds two top-level function declarations of one name
C1_UniqueTopLevelNames ==
    \A i \in TopLevel(file), j \in TopLevel(file) :
        file[i].node.name = file[j].node.name => i = j

\* a create was refused for a store that holds two functions
C1_Witness ==
    /\ request.op = "create"
    /\ AlreadyExists
    /\ Cardinality(TopLevel(file)) = 2

\* C2: a create, update or delete that fails leaves the file as it was
C2_FailureLeavesFile == (Mutating /\ Failed) => Unchanged

\* a delete of an absent name was refused on the startup file
C2_Witness ==
    /\ request.op = "delete"
    /\ NotFound
    /\ file = StartupFile

\* C3: after a successful create, update or delete the file parses, and a
\* request meets an unparsable file only if the file was so from the start
C3_ValidAfterSuccess ==
    /\ (Mutating /\ Succeeded) => ast_parse(file).ok
    /\ response.detail = "StorageCorrupt" => file = CorruptFile

\* an update succeeded on a store of two functions
C3_Witness ==
    /\ request.op = "update"
    /\ Succeeded
    /\ Cardinality(TopLevel(file)) = 2
    /\ ast_parse(file).ok

\* C4 (as claimed): code with two function declarations, or none, submitted
\* for a name that passes the existence check is refused as an invalid
\* definition and the file is unchanged
C4_Claim ==
    ( /\ request.op \in {"create", "update"}
      /\ PassedExistence
      /\ FunctionCount(Submitted) \in {0, 2} )
    => (InvalidDefinition /\ Unchanged)

\* C5: create of a name the store lists is refused with AlreadyExists,
\* whatever the code, and the file is unchanged
C5_CreateExisting ==
    ( /\ request.op = "create"
      /\ Addressed \in ListedNames(file_before) )
    => (AlreadyExists /\ Unchanged)

\* create of a listed name with code that is not Python
C5_Witness ==
    /\ request.op = "create"
    /\ Addressed \in ListedNames(file_before)
    /\ Submitted = <<Garbage>>
    /\ AlreadyExists

\* C6 (as claimed): code that declares another name than the addressed one
\* is refused with NameMismatch and the file is unchanged
C6_Claim ==
    ( /\ request.op \in {"create", "update"}
      /\ ast_parse(file_before).ok
      /\ request.tool_func.name = Addressed
      /\ HasDeclared(Submitted)
      /\ DeclaredName(Submitted) # Addressed )
    => (NameMismatch /\ Unchanged)

\* C6 (amended): such code is always refused and the file is unchanged; the
\* refusal is NameMismatch exactly when the addressed name has passed the
\* existence check, else AlreadyExists (create) or NotFound (update)
C6_MismatchRefused ==
    ( /\ request.op \in {"create", "update"}
      /\ ast_parse(file_before).ok
      /\ request.tool_func.name = Addressed
      /\ HasDeclared(Submitted)
      /\ DeclaredName(Submitted) # Addressed )
    => /\ Failed
       /\ Unchanged
       /\ PassedExistence => NameMismatch
       /\ ~PassedExistence =>
            IF request.op = "create" THEN AlreadyExists ELSE NotFound

\* an update of a stored name was refused for declaring another name
C6_Witness ==
    /\ request.op = "update"
    /\ HasDeclared(Submitted)
    /\ DeclaredName(Submitted) # Addressed
    /\ NameMismatch
    /\ Unchanged

\* C7 (as claimed): update succeeds iff the name is listed and the code
\* parses to exactly one function of that name
C7_Claim ==
    ( /\ request.op = "update"
      /\ request.tool_func.name = Addressed )
    => ( Succeeded <=>
            /\ Addressed \in ListedNames(file_before)
            /\ OneFunctionNamed(Submitted, Addressed) )

\* C8 (as claimed): delete succeeds iff the name is listed, else NotFound
C8_Claim ==
    ( /\ request.op = "delete"
      /\ ast_parse(file_before).ok )
    => /\ Succeeded <=> Addressed \in ListedNames(file_before)
       /\ ~Succeeded => NotFound

\* C9 (as claimed, at the state the delete leaves): after a successful
\* delete(n), list() does not contain n and read(n) is NotFound
C9_Claim ==
    ( /\ request.op = "delete"
      /\ Succeeded )
    => /\ Addressed \notin ListedNames(file)
       /\ get_tool_function(file, Addressed).response.status = 404

\* C10 (as claimed): after a successful update(n, D') read(n) returns D' up
\* to the round trip, n keeps its position, the other declarations keep
\* content and position, and list() names the same set
C10_Claim ==
    ( /\ request.op = "update"
      /\ Succeeded )
    => LET old == BodyOf(file_before)
           new == BodyOf(file)
           i == ReplaceIndex(old, Addressed)
       IN  /\ get_tool_function(file, Addressed).response.body.code
                = ast_unparse(BodyOf(strip(Submitted)))
           /\ Len(new) = Len(old)
           /\ i # 0
           /\ new[i].name = Addressed
           /\ \A j \in 1..Len(old) : j # i => new[j] = old[j]
           /\ ListedNames(file) = ListedNames(file_before)

\* the names of the top-level function declarations of a text, in order
TopLevelNames(text) ==
    LET funcs == SelectSeq(BodyOf(text), IsFunction)
    IN  [i \in 1..Len(funcs) |-> funcs[i].name]

\* the elements of a sequence
Range(seq) == {seq[i] : i \in 1..Len(seq)}

\* a sequence without its i-th element
RemoveAt(seq, i) == SubSeq(seq, 1, i - 1) \o SubSeq(seq, i + 1, Len(seq))

\* what read(n) answers on a text
ReadOf(text, n) == get_tool_function(text, n).response

C12_Claim ==
    /\ (request.op = "read" /\ Succeeded)
            => Addressed \in Range(TopLevelNames(file_before))
    /\ (request.op = "create" /\ AlreadyExists)
            => Addressed \in Range(TopLevelNames(file_before))
    /\ ( /\ request.op = "update"
         /\ ast_parse(file_before).ok
         /\ request.tool_func.name = Addressed
         /\ Addressed \notin Range(TopLevelNames(file_before)) )
            => NotFound

\* C13 (as claimed): list() returns the names of the top-level function
\* declarations of the file, each once, and nothing else
C13_Claim ==
    (request.op = "list" /\ Succeeded)
    => /\ Range(response.names) = Range(TopLevelNames(file_before))
       /\ Len(response.names) = Cardinality(Range(response.names))

\* C14: a successful delete(n) removes one declaration, a function named
\* n, and leaves every other statement with its content and order
C14_DeleteFrame ==
    (request.op = "delete" /\ Succeeded)
    => \E i \in 1..Len(BodyOf(file_before)) :
          /\ IsFunction(BodyOf(file_before)[i])
          /\ BodyOf(file_before)[i].name = Addressed
          /\ BodyOf(file) = RemoveAt(BodyOf(file_before), i)

\* a delete removed the first of two functions
C14_Witness ==
    /\ request.op = "delete"
    /\ Succeeded
    /\ Len(TopLevelNames(file_before)) = 2
    /\ TopLevelNames(file_before)[1] = Addressed
    /\ Len(TopLevelNames(file)) = 1

\* C15: a successful create(n, code) leaves the previous declaration
\* sequence followed by the new declaration n
C15_CreateAppends ==
    (request.op = "create" /\ Succeeded)
    => /\ Len(BodyOf(file)) = Len(BodyOf(file_before)) + 1
       /\ SubSeq(BodyOf(file), 1, Len(BodyOf(file_before)))
            = BodyOf(file_before)
       /\ BodyOf(file)[Len(BodyOf(file))] = BodyOf(strip(Submitted))[1]
       /\ BodyOf(file)[Len(BodyOf(file))].name = Addressed

\* a create added a second function to the store
C15_Witness ==
    /\ request.op = "create"
    /\ Succeeded
    /\ Len(TopLevelNames(file_before)) = 1
    /\ Len(TopLevelNames(file)) = 2

\* C16: read and list leave the file as it was, and the same read done
\* again gives the same answer
C16_ReadOnly ==
    /\ request.op \in {"read", "list"} => Unchanged
    /\ request.op = "read" => ReadOf(file, Addressed) = response
    /\ request.op = "list" => list_tool_functions(file).response = response

\* a read succeeded on the hand-written file, comments still in place
C16_Witness ==
    /\ request.op = "read"
    /\ Succeeded
    /\ file = ShippedFile

\* C17 (as claimed): on a file that does not parse every operation fails
\* with the internal error and leaves the file unchanged
C17_Claim ==
    (request.op # "none" /\ ~ast_parse(file_before).ok)
    => /\ response.status = 500
       /\ response.detail = "StorageCorrupt"
       /\ Unchanged

\* C17 (amended): as claimed, except that an update whose path name differs
\* from the body name is refused as a bad request before the file is read
C17_CorruptRefused ==
    (request.op # "none" /\ ~ast_parse(file_before).ok)
    => /\ Unchanged
       /\ IF request.op = "update" /\ request.tool_func.name # Addressed
          THEN response.status = 400 /\ response.detail = "PathBodyMismatch"
          ELSE response.status = 500 /\ response.detail = "StorageCorrupt"

\* a create with valid code was refused on the damaged file
C17_Witness ==
    /\ request.op = "create"
    /\ file_before = CorruptFile
    /\ OneFunctionNamed(Submitted, Addressed)
    /\ response.status = 500
    /\ file = CorruptFile

\* the lines of a text that precede its first function declaration
Preamble(text) ==
    LET funcs == TopLevel(text)
    IN  IF funcs = {} THEN text
        ELSE SubSeq(text, 1, (CHOOSE i \in funcs : \A j \in funcs : i <= j) - 1)

\* C18 (as claimed): a successful create, update or delete leaves the
\* preamble of the file verbatim
C18_Claim ==
    (Mutating /\ Succeeded)
    => rstrip(Preamble(file)) = rstrip(Preamble(file_before))

\* C18 (amended): a successful create, update or delete keeps the statements
\* of the preamble, in order, in the serializer's rendering; its comment and
\* blank lines are not kept
C18_PreambleStatements ==
    (Mutating /\ Succeeded)
    => /\ BodyOf(Preamble(file)) = BodyOf(Preamble(file_before))
       /\ rstrip(Preamble(file)) = ast_unparse(BodyOf(Preamble(file_before)))

\* the first function was created on the file that startup wrote
C18_Witness ==
    /\ request.op = "create"
    /\ Succeeded
    /\ file_before = StartupFile
    /\ BodyOf(Preamble(file)) = <<Import, ImportFrom>>

\* the failure kind of the error taxonomy a raised exception stands for
FailureKind(detail) ==
    CASE detail \in {"SyntaxError", "NoFunctionDefinition"} -> "InvalidDefinition"
      [] detail \in {"NameMismatch", "PathBodyMismatch"} -> "NameMismatch"
      [] detail \in {"StorageCorrupt", "NoNodeIndex"} -> "StorageCorrupt"
      [] OTHER -> detail

\* C20 (as claimed): a failure is one of the raised exceptions, is not a
\* success, and is reported differently from every failure of another kind
C20_Claim ==
    /\ Succeeded => response.detail = ""
    /\ Failed =>
        /\ response \in Raised
        /\ \A e \in Raised :
              FailureKind(e.detail) # FailureKind(response.detail)
                  => ReportedKind(e) # ReportedKind(response)

\* C20 (amended): as claimed, except that InvalidDefinition and NameMismatch
\* are reported alike (400, "Invalid function code provided")
C20_FailureKinds ==
    /\ Succeeded => response.detail = ""
    /\ Failed =>
        /\ response \in Raised
        /\ \A e \in Raised :
              FailureKind(e.detail) # FailureKind(response.detail)
                  => \/ ReportedKind(e) # ReportedKind(response)
                     \/ {FailureKind(e.detail), FailureKind(response.detail)}
                            = {"InvalidDefinition", "NameMismatch"}
        /\ response.status = 404 <=> FailureKind(response.detail) = "NotFound"
        /\ response.status = 409 <=> FailureKind(response.detail) = "AlreadyExists"
        /\ response.status = 500 <=> FailureKind(response.detail) = "StorageCorrupt"
        /\ response.status = 400 <=>
              FailureKind(response.detail) \in {"InvalidDefinition", "NameMismatch"}

\* a name mismatch was reported the way an invalid definition is
C20_Witness ==
    /\ NameMismatch
    /\ ReportedKind(response)
            = ReportedKind(HTTPException(400, "NoFunctionDefinition"))

\* the file two requests leave when they are handled one after the other
InSequence(f, first, second) ==
    Dispatch(Dispatch(f, first).file, second).file

\* C19: nothing serializes or version-checks the cycles: a handler that
\* raised nothing on the text it read answers success and leaves the file
\* it computed from that text, whatever was written in between
C19_UnserializedWrite ==
    [][\A w \in Workers :
          ( /\ pc[w] = "read"
            /\ pc'[w] = "done"
            /\ Dispatch(snap[w], job[w]).response.status \in {200, 201, 204} )
          => /\ reply'[w] = Dispatch(snap[w], job[w]).response
             /\ file' = Dispatch(snap[w], job[w]).file]_vars

\* a lost update: two updates, or a create and a delete, have both answered
\* success and the file is not what the two calls leave in either order
C19_Witness ==
    /\ \A w \in Workers :
          pc[w] = "done" /\ reply[w].status \in {200, 201, 204}
    /\ {job[w].op : w \in Workers} \in {{"update"}, {"create", "delete"}}
    /\ file # InSequence(file_before, job["w1"], job["w2"])
    /\ file # InSequence(file_before, job["w2"], job["w1"])

\* C21 (as claimed): the code a successful create or update returns parses
\* to the tree of the code an immediately following read(n) returns
C21_Claim ==
    ( /\ request.op \in {"create", "update"}
      /\ Succeeded )
    => /\ ReadOf(file, Addressed).status = 200
       /\ BodyOf(strip(response.body.code))
            = BodyOf(ReadOf(file, Addressed).body.code)

\* C23: an update whose path name differs from the name in the body is
\* refused as a bad request and leaves the file unchanged, whether or not
\* either name is stored and before the file is looked at
C23_PathBodyMismatch ==
    ( /\ request.op = "update"
      /\ request.tool_func.name # Addressed )
    => /\ response = HTTPException(400, "PathBodyMismatch")
       /\ Unchanged
       /\ ListedNames(file) = ListedNames(file_before)

\* an update from a name that is not stored to a stored name was refused
C23_Witness ==
    /\ request.op = "update"
    /\ Addressed \notin ListedNames(file_before)
    /\ request.tool_func.name \in ListedNames(file_before)
    /\ OneFunctionNamed(Submitted, request.tool_func.name)
    /\ response.status = 400
    /\ Unchanged

\* C24 (as claimed): when the existence check of update finds a function
\* named n, the replacement loop finds a top-level declaration named n, and
\* "Failed to find node index for replacement" is never raised
C24_Claim ==
    /\ ( /\ request.op = "update"
         /\ request.tool_func.name = Addressed
         /\ ast_parse(file_before).ok
         /\ find_function_node(BodyOf(file_before), Addressed) # NoNode )
       => ReplaceIndex(BodyOf(file_before), Addressed) # 0
    /\ response.detail # "NoNodeIndex"

\* the top-level function declarations of a text have distinct names
UniqueNames(text) ==
    \A i \in TopLevel(text), j \in TopLevel(text) :
        text[i].node.name = text[j].node.name => i = j

\* C25: however the read-parse-write cycles of the processes interleave, the
\* file, and each text a handler has read from it, holds no two top-level
\* function declarations of one name
C25_NoDuplicateInterleaved ==
    /\ UniqueNames(file_before) => UniqueNames(file)
    /\ \A w \in Workers :
          (UniqueNames(file_before) /\ pc[w] # "idle") => UniqueNames(snap[w])

\* two creates of one name, both having read the file before either wrote
\* it, have both answered success, and the file holds the name once
C25_Witness ==
    /\ \A w \in Workers :
          /\ pc[w] = "done"
          /\ job[w].op = "create"
          /\ reply[w].status = 201
          /\ snap[w] = file_before
    /\ job["w1"].function_name = job["w2"].function_name
    /\ Cardinality({i \in TopLevel(file) :
            file[i].node.name = job["w1"].function_name}) = 1

\* C22: from a store without functions, create(n, first body) succeeds, list
\* is then exactly n, update(n, second body) succeeds, read(n) then returns
\* the second body, delete(n) succeeds, and list is then empty
C22_Scenario ==
    /\ step.calls = 1 => response.status = 201
    /\ step.calls = 2 => (response.status = 200 /\ response.names = <<step.name>>)
    /\ step.calls = 3 => response.status = 200
    /\ step.calls = 4 =>
          /\ response.status = 200
          /\ response.body.name = step.name
          /\ BodyOf(response.body.code)
                = <<FunctionDef(step.name, step.second, <<>>)>>
    /\ step.calls = 5 => response.status = 204
    /\ step.calls = 6 => (response.status = 200 /\ response.names = <<>>)

\* the six calls were made with two different bodies, and the last list
\* found the store empty
C22_Witness ==
    /\ step.calls = 6
    /\ step.first # step.second
    /\ request.op = "list"
    /\ response.names = <<>>
    /\ file = RewrittenFile

\* what the agent endpoints show of the directories: the list of names and
\* the answer of get_agent for each name
AgentsView(ags) ==
    [names |-> list_agents(ags).response.names,
     configs |-> [a \in AgentNames |-> get_agent(ags, a).response]]

AgentFailed == agent_response.status >= 400

\* C26: a create_agent that fails leaves every agent directory and file as it
\* was, so list_agents and get_agent answer as before the call; for a name
\* whose directory exists the failure is the conflict
C26_CreateAgentAllOrNothing ==
    ( /\ agent_request.op = "create_agent"
      /\ AgentFailed )
    => /\ agents = agents_before
       /\ AgentsView(agents) = AgentsView(agents_before)
       /\ file = file_before
       /\ agents_before[agent_request.agent_name].exists
            <=> agent_response.status = 409
       /\ ~agents_before[agent_request.agent_name].exists
            => (agent_response.status = 500 /\ agent_request.fault # "none")

\* the write of agent.py failed for a new name, after agent_config.json and
\* __init__.py were written, while another agent is stored
C26_Witness ==
    /\ agent_request.op = "create_agent"
    /\ agent_request.fault = "agent_py_write"
    /\ agent_response.status = 500
    /\ ~agents[agent_request.agent_name].exists
    /\ \E a \in AgentNames :
          /\ agents[a].exists
          /\ get_agent(agents, a).response.status = 200

\* the tool names an agent directory refers to: in the stored configuration
\* and in the import statement of agent.py
ReferencedBy(dir) ==
    (IF dir.agent_config_json \in {NoFile, Torn} THEN {}
     ELSE Range(dir.agent_config_json.config.tool_references))
    \cup
    (IF dir.agent_py \in {NoFile, Torn} THEN {}
     ELSE Range(dir.agent_py.import_statement))

\* C27: a delete of a tool function answers as the store alone decides and
\* leaves every agent directory as it was, also when an agent names the
\* function; create_agent and update_agent store the tool references they
\* are given, whether or not the store holds them
C27_DeleteToolLeavesAgents ==
    /\ request.op = "delete" =>
          /\ agents = agents_before
          /\ response = delete_tool_function(file_before, Addressed).response
          /\ Addressed \in Range(TopLevelNames(file_before))
                => response.status = 204
    /\ ( /\ agent_request.op = "create_agent"
         /\ agent_request.fault = "none"
         /\ ~agents_before[agent_request.agent_name].exists )
       => /\ agent_response.status = 201
          /\ get_agent(agents, agent_request.agent_name).response.config
                = agent_request.agent_config
    /\ ( /\ agent_request.op = "update_agent"
         /\ agent_request.fault = "none"
         /\ agent_request.agent_config.name = agent_request.agent_name
         /\ agents_before[agent_request.agent_name].exists )
       => /\ agent_response.status = 200
          /\ get_agent(agents, agent_request.agent_name).response.config
                = agent_request.agent_config

\* a function was deleted that a stored agent names in its configuration and
\* imports in its agent.py, and the store no longer holds it
C27_Witness ==
    /\ request.op = "delete"
    /\ response.status = 204
    /\ Addressed \notin ListedNames(file)
    /\ \E a \in AgentNames :
          /\ agents[a].exists
          /\ agents[a].agent_config_json \notin {NoFile, Torn}
          /\ Addressed \in Range(agents[a].agent_config_json.config.tool_references)
          /\ agents[a].agent_py \notin {NoFile, Torn}
          /\ Addressed \in Range(agents[a].agent_py.import_statement)
          /\ agents[a] = agents_before[a]

\* C28 (as claimed): whatever geocoding and the weather request answer,
\* get_weather returns a dictionary with status success and a report, or
\* status error and an error_message, and raises nothing
C28_Claim ==
    weather_out # NoCall
    => /\ weather_out.kind = "return"
       /\ \/ weather_out.status = "success" /\ weather_out.key = "report"
          \/ weather_out.status = "error" /\ weather_out.key = "error_message"

====
